---- MODULE Spec2Model ----
(***************************************************************************)
(* sseredis: a Server-Sent-Events bridge to Redis PUB/SUB channels and     *)
(* Redis streams.  One streaming connection (handler + listener goroutine) *)
(* and the POST senders, modelled from the Go source.                      *)
(*                                                                         *)
(* Go strings are sequences of atoms; the atom NL is the newline.  An      *)
(* entry id "n" is the one-element sequence <<n>>, the empty string <<>>.  *)
(***************************************************************************)
EXTENDS Naturals, Integers, Sequences, FiniteSets, TLC

\* ---------------------------------------------------------------- bounds
MaxPub == 2
MaxLog == 2
MaxForm == 2
MaxKeepAlive == 1
MaxRedeliver == 1
MaxResume == 1
KeepAlive == 2
MaxOthers == 12

NL == "\n"
EmptyStr == << >>

\* ------------------------------------------------------- string helpers
\* Split that leaves the text whole
SplitWhole(s) == << s >>

RECURSIVE Split(_)
\* strings.Split(text, "\n"): n newlines give n+1 segments
Split(s) ==
  IF \A i \in 1..Len(s) : s[i] # NL
    THEN << s >>
    ELSE LET p == CHOOSE i \in 1..Len(s) :
                    s[i] = NL /\ \A j \in 1..(i-1) : s[j] # NL
         IN  << SubSeq(s, 1, p-1) >> \o Split(SubSeq(s, p+1, Len(s)))

RECURSIVE Join(_)
\* strings.Join(lines, "\n")
Join(lines) ==
  IF Len(lines) = 0 THEN EmptyStr
  ELSE IF Len(lines) = 1 THEN lines[1]
  ELSE lines[1] \o << NL >> \o Join(Tail(lines))

\* a line that is the value alone
KeyValBare(key, val) == val

\* fmt.Sprintf("%s=%s", key, val)
KeyVal(key, val) == << key, "=" >> \o val

\* the orders in which Go may range over a map with key set ks
Orders(ks) ==
  { o \in [1..Cardinality(ks) -> ks] :
      \A i, j \in 1..Cardinality(ks) : i # j => o[i] # o[j] }

\* lines built by the range over evt.Values, in iteration order o
Lines(values, o) == [i \in 1..Len(o) |-> KeyVal(o[i], values[o[i]])]

\* decimal digits
Digits == << "0", "1", "2", "3", "4", "5", "6", "7", "8", "9" >>

\* a formatting that keeps the last digit only
FormatIntLow(n) == << Digits[(n % 10) + 1] >>

RECURSIVE FormatInt(_)
\* strconv.FormatInt(n, 10), n >= 0
FormatInt(n) ==
  IF n < 10 THEN << Digits[n + 1] >>
  ELSE FormatInt(n \div 10) \o << Digits[(n % 10) + 1] >>

\* strconv.Itoa
Itoa(n) == IF n < 0 THEN << "-" >> \o FormatInt(0 - n) ELSE FormatInt(n)

IdStr(n) == << n >>
IdNum(s) == s[1]

\* ----------------------------------------------------------- messages
ZeroMessage == [id |-> EmptyStr, source |-> "", text |-> EmptyStr]

PubSubMessage(channel, payload) ==
  [id |-> EmptyStr, source |-> channel, text |-> payload]

StreamMessage(stream, evt, o) ==
  [id |-> evt.id, source |-> stream, text |-> Join(Lines(evt.values, o))]

\* a test that takes no message for the end of the stream
NeverSentinel(msg) == FALSE

\* the writer's end-of-stream test: msg.text == ""
IsSentinel(msg) == msg.text = EmptyStr

\* NewStreamReceiver: an absent Last-Event-ID starts at "0"
InitialLastId(hdr) == IF hdr = EmptyStr THEN IdStr(0) ELSE hdr

\* a read that starts at the cursor instead of after it
EntriesFrom(lg, cursor) ==
  SelectSeq(lg, LAMBDA e : IdNum(e.id) >= IdNum(cursor))

\* XREAD: the entries of the log strictly after the cursor, in log order
EntriesAfter(lg, cursor) ==
  SelectSeq(lg, LAMBDA e : IdNum(e.id) > IdNum(cursor))

\* a timer armed one tick late
ArmTimerLate(k) == k + 1

\* time.After(keepAliveTime * time.Second), in ticks
ArmTimer(k) == k

\* ------------------------------------------------------------- state
VARIABLES
  keepAliveTime,   \* handler.keepAliveTime (0 disables)
  clientRetry,     \* the client-retry flag, in seconds
  variant,         \* which prefix the GET matched: "none", "pubsub", "stream"
  source,          \* receiver.source
  lastId,          \* receiver.lastId
  resume,          \* the cursor the receiver was constructed with
  shutdown,        \* receiver.shutdown: "nil" or "set"
  shutdownCalls,   \* number of invocations of receiver.shutdown
  lpc,             \* listener goroutine position
  lmsg,            \* the message the listener is pushing
  batch,           \* entries of the current XREAD reply not yet processed
  lastPoll,        \* outcome of the last XREAD
  redelivered,     \* replies that repeated entries at or before the cursor
  chanClosed,      \* receiver.messages has been closed
  subState,        \* broker subscription: "none", "open", "closed"
  subchan,         \* pubsub.Channel(): events not yet taken by the listener
  published,       \* payloads the broker accepted for the subscription
  log,             \* the Redis stream
  wpc,             \* handler position
  wmsg,            \* msg in the select arm
  hunks,           \* data segments still to write
  out,             \* lines written to the response
  cancelled,       \* req.Context().Done() is closed
  doneAtSelect,    \* the select took another arm while Done was ready
  lateWrite,       \* a Write was attempted after such a select
  exitAt,          \* the return statement the handler left through
  writeFailed,     \* a res.Write of the handler returned an error
  timer,           \* ticks until the keepalive timer fires
  waited,          \* ticks spent in the current select
  sendReq,         \* the last POST request
  sendResult,      \* what sender.send returned to the last POST
  sent,            \* the broker commands the last POST issued
  response         \* the status and body the publisher gave the last POST

cfgVars  == << keepAliveTime, clientRetry >>
recvVars == << variant, source, lastId, resume, shutdown, shutdownCalls >>
lsnVars  == << lpc, lmsg, batch, lastPoll, redelivered, chanClosed >>
brkVars  == << subState, subchan, published, log >>
wrVars   == << wpc, wmsg, hunks, out, cancelled, doneAtSelect, lateWrite,
              exitAt, writeFailed, timer, waited >>
sndVars  == << sendReq, sendResult, sent, response >>
vars == << cfgVars, recvVars, lsnVars, brkVars, wrVars, sndVars >>

Channel == "C"

\* values of the client-retry flag: negative, zero (the default), positive
RetryFlags == {-1, 0, 1}

\* a conversion that takes every non-zero interval
RetryTimeNonZero(c) == IF c # 0 THEN Itoa(c * 1000) ELSE EmptyStr

\* main: clientRetryTime is set, in milliseconds, when the flag is above 0
RetryTime(c) == IF c > 0 THEN Itoa(c * 1000) ELSE EmptyStr

\* handler.clientRetryTime ("" disables)
clientRetryTime == RetryTime(clientRetry)
NoRequest == [kind |-> "none"]
NoResult == [ok |-> TRUE, val |-> EmptyStr, err |-> "none"]
NoResponse == [status |-> 0, body |-> EmptyStr]

\* the reply of a command that did not reach the broker
Unreached == -1

Init ==
  /\ keepAliveTime \in {0, KeepAlive}
  /\ clientRetry \in RetryFlags
  /\ variant = "none"
  /\ source = ""
  /\ lastId = EmptyStr
  /\ resume = EmptyStr
  /\ shutdown = "nil"
  /\ shutdownCalls = 0
  /\ lpc = "idle"
  /\ lmsg = ZeroMessage
  /\ batch = << >>
  /\ lastPoll = "none"
  /\ redelivered = 0
  /\ chanClosed = FALSE
  /\ subState = "none"
  /\ subchan = << >>
  /\ published = << >>
  /\ log = << >>
  /\ wpc = "idle"
  /\ wmsg = ZeroMessage
  /\ hunks = << >>
  /\ out = << >>
  /\ cancelled = FALSE
  /\ doneAtSelect = FALSE
  /\ lateWrite = FALSE
  /\ exitAt = "none"
  /\ writeFailed = FALSE
  /\ timer = 0
  /\ waited = 0
  /\ sendReq = NoRequest
  /\ sendResult = NoResult
  /\ sent = << >>
  /\ response = NoResponse

\* ------------------------------------------------- GET: subscriber
\* Last-Event-ID header values: absent, or an entry id
LastEventIds == {EmptyStr} \cup {IdStr(n) : n \in 0..MaxResume}

\* the deferred function: call receiver.shutdown unless it is nil.
\* pubsub.Close ends the subscription, which closes pubsub.Channel()
Return(site) ==
  /\ wpc' = "closed"
  /\ exitAt' = site
  /\ IF shutdown # "nil"
       THEN /\ shutdownCalls' = shutdownCalls + 1
            /\ subState' = "closed"
       ELSE UNCHANGED << shutdownCalls, subState >>

Goto(next) ==
  /\ wpc' = next
  /\ UNCHANGED << shutdownCalls, subState, exitAt >>

\* a handler that goes on after a failed write
WriteOn(line, ok, next) ==
  /\ lateWrite' = (lateWrite \/ doneAtSelect)
  /\ writeFailed' = (writeFailed \/ ~ok)
  /\ out' = IF ok THEN Append(out, line) ELSE out
  /\ Goto(next)

\* res.Write(line): on failure log and return, else continue at next
Write(line, ok, next) ==
  /\ lateWrite' = (lateWrite \/ doneAtSelect)
  /\ writeFailed' = (writeFailed \/ ~ok)
  /\ IF ok
       THEN out' = Append(out, line) /\ Goto(next)
       ELSE out' = out /\ Return(wpc)

\* subscriber up to WriteHeader: pick the receiver by prefix, start its
\* goroutine
Subscriber(v, hdr) ==
  /\ wpc = "idle"
  /\ variant' = v
  /\ source' = Channel
  /\ lastId' = IF v = "stream" THEN InitialLastId(hdr) ELSE EmptyStr
  /\ resume' = lastId'
  /\ lpc' = IF v = "stream" THEN "xread" ELSE "subscribe"
  /\ wpc' = "padding"
  /\ UNCHANGED << cfgVars, shutdown, shutdownCalls, lmsg, batch, lastPoll,
                  redelivered, chanClosed, brkVars, wmsg, hunks, out,
                  cancelled, doneAtSelect, lateWrite, exitAt, writeFailed,
                  timer, waited, sndVars >>

wrFrame == << cfgVars, variant, source, lastId, resume, shutdown, lsnVars,
              subchan, published, log, cancelled, sndVars >>

\* what a step of the handler that writes nothing leaves alone
noWrite == << out, lateWrite, writeFailed >>

WritePadding(ok) ==
  /\ wpc = "padding"
  /\ Write(<< "comment", "padding" >>, ok,
           IF clientRetryTime # EmptyStr THEN "retry" ELSE "flush")
  /\ UNCHANGED << wrFrame, wmsg, hunks, doneAtSelect, timer, waited >>

WriteRetry(ok) ==
  /\ wpc = "retry"
  /\ Write(<< "retry", clientRetryTime >>, ok, "flush")
  /\ UNCHANGED << wrFrame, wmsg, hunks, doneAtSelect, timer, waited >>

\* top of the loop: flusher.Flush(), then arm the keepalive timer
Flush ==
  /\ wpc = "flush"
  /\ Goto("select")
  /\ timer' = IF keepAliveTime > 0 THEN ArmTimer(keepAliveTime) ELSE 0
  /\ waited' = 0
  /\ doneAtSelect' = FALSE
  /\ UNCHANGED << wrFrame, wmsg, hunks, noWrite >>

\* the select is left: timeout is local to the iteration
StopTimer ==
  /\ timer' = 0
  /\ waited' = 0

\* one tick passes while the handler waits in the select
Tick ==
  /\ wpc = "select"
  /\ keepAliveTime > 0
  /\ timer > 0
  /\ timer' = timer - 1
  /\ waited' = waited + 1
  /\ UNCHANGED << cfgVars, recvVars, lsnVars, brkVars, wpc, wmsg, hunks,
                  noWrite, cancelled, doneAtSelect, exitAt, sndVars >>

\* the client goes away
Cancel ==
  /\ wpc \notin {"idle", "closed"}
  /\ ~cancelled
  /\ cancelled' = TRUE
  /\ UNCHANGED << cfgVars, recvVars, lsnVars, brkVars, wpc, wmsg, hunks,
                  noWrite, doneAtSelect, exitAt, timer, waited, sndVars >>

\* a writer that never writes the id line
FirstWriteEvent(msg) == "event"

\* if msg.id != "": the id line is written first, else the event line
FirstWrite(msg) == IF msg.id # EmptyStr THEN "id" ELSE "event"

\* case msg := <-receiver.messages, taking the listener's pending push or,
\* once the channel is closed, the zero message
Dispatch(msg) ==
  IF IsSentinel(msg)
    THEN Return("sentinel") /\ doneAtSelect' = doneAtSelect
    ELSE /\ Goto(FirstWrite(msg))
         /\ doneAtSelect' = cancelled

\* a receive that blocks on the closed queue
SelectMessageBlocked ==
  /\ wpc = "select"
  /\ lpc = "send"
  /\ wmsg' = lmsg
  /\ lpc' = IF variant = "stream" THEN "advance" ELSE "recv"
  /\ Dispatch(wmsg')
  /\ StopTimer
  /\ UNCHANGED << cfgVars, variant, source, lastId, resume, shutdown, lmsg,
                  batch, lastPoll, redelivered, chanClosed, subchan,
                  published, log, hunks, noWrite, cancelled, sndVars >>

SelectMessage ==
  /\ wpc = "select"
  /\ \/ /\ lpc = "send"
        /\ wmsg' = lmsg
        /\ lpc' = IF variant = "stream" THEN "advance" ELSE "recv"
     \/ /\ lpc # "send"
        /\ chanClosed
        /\ wmsg' = ZeroMessage
        /\ lpc' = lpc
  /\ Dispatch(wmsg')
  /\ StopTimer
  /\ UNCHANGED << cfgVars, variant, source, lastId, resume, shutdown, lmsg,
                  batch, lastPoll, redelivered, chanClosed, subchan,
                  published, log, hunks, noWrite, cancelled, sndVars >>

KeepAlivesWritten ==
  Len(SelectSeq(out, LAMBDA l : l = << "comment", "keep-alive" >>))

\* case <-timeout
SelectTimeout ==
  /\ wpc = "select"
  /\ keepAliveTime > 0
  /\ timer = 0
  /\ KeepAlivesWritten < MaxKeepAlive
  /\ Goto("keepalive")
  /\ doneAtSelect' = cancelled
  /\ StopTimer
  /\ UNCHANGED << wrFrame, wmsg, hunks, noWrite >>

\* case <-req.Context().Done()
SelectDone ==
  /\ wpc = "select"
  /\ cancelled
  /\ Return("done")
  /\ StopTimer
  /\ UNCHANGED << wrFrame, wmsg, hunks, noWrite, doneAtSelect >>

WriteId(ok) ==
  /\ wpc = "id"
  /\ Write(<< "id", wmsg.id >>, ok, "event")
  /\ UNCHANGED << wrFrame, wmsg, hunks, doneAtSelect, timer, waited >>

WriteEvent(ok) ==
  /\ wpc = "event"
  /\ Write(<< "event", wmsg.source >>, ok, "data")
  /\ hunks' = Split(wmsg.text)
  /\ UNCHANGED << wrFrame, wmsg, doneAtSelect, timer, waited >>

WriteData(ok) ==
  /\ wpc = "data"
  /\ Write(<< "data", Head(hunks) >>, ok,
           IF Len(hunks) > 1 THEN "data" ELSE "blank")
  /\ hunks' = Tail(hunks)
  /\ UNCHANGED << wrFrame, wmsg, doneAtSelect, timer, waited >>

WriteBlank(ok) ==
  /\ wpc = "blank"
  /\ Write(<< "blank" >>, ok, "flush")
  /\ UNCHANGED << wrFrame, wmsg, hunks, doneAtSelect, timer, waited >>

WriteKeepAlive(ok) ==
  /\ wpc = "keepalive"
  /\ Write(<< "comment", "keep-alive" >>, ok, "flush")
  /\ UNCHANGED << wrFrame, wmsg, hunks, doneAtSelect, timer, waited >>

\* ----------------------------------------- listener: NewPubSubReceiver
lsnFrame == << cfgVars, variant, source, resume, shutdownCalls, published,
               log, wrVars, sndVars, redelivered >>

\* pubsub := client.Subscribe(source)
Subscribe ==
  /\ lpc = "subscribe"
  /\ subState' = "open"
  /\ lpc' = "setshutdown"
  /\ UNCHANGED << lsnFrame, lastId, shutdown, lmsg, batch, lastPoll,
                  chanClosed, subchan >>

\* receiver.shutdown = pubsub.Close
SetShutdown ==
  /\ lpc = "setshutdown"
  /\ shutdown' = "set"
  /\ lpc' = "recv"
  /\ UNCHANGED << lsnFrame, lastId, lmsg, batch, lastPoll, chanClosed,
                  subState, subchan >>

\* a listener that takes an empty payload for the end of the subscription
PubSubRecvEmptyEnds ==
  /\ lpc = "recv"
  /\ IF subchan # << >>
       THEN /\ subchan' = Tail(subchan)
            /\ IF Head(subchan) = EmptyStr
                 THEN lpc' = "close" /\ lmsg' = lmsg
                 ELSE /\ lmsg' = PubSubMessage(source, Head(subchan))
                      /\ lpc' = "send"
       ELSE /\ subState = "closed"
            /\ lpc' = "close"
            /\ UNCHANGED << subchan, lmsg >>
  /\ UNCHANGED << lsnFrame, lastId, shutdown, batch, lastPoll, chanClosed,
                  subState >>

\* evt := <-channel; nil once the subscription is closed and drained;
\* an empty payload is skipped
PubSubRecv ==
  /\ lpc = "recv"
  /\ IF subchan # << >>
       THEN /\ subchan' = Tail(subchan)
            /\ IF Head(subchan) = EmptyStr
                 THEN lpc' = "recv" /\ lmsg' = lmsg
                 ELSE /\ lmsg' = PubSubMessage(source, Head(subchan))
                      /\ lpc' = "send"
       ELSE /\ subState = "closed"
            /\ lpc' = "close"
            /\ UNCHANGED << subchan, lmsg >>
  /\ UNCHANGED << lsnFrame, lastId, shutdown, batch, lastPoll, chanClosed,
                  subState >>

\* a listener that closes the queue and goes on
CloseAndGoOn ==
  /\ lpc = "close"
  /\ chanClosed' = TRUE
  /\ lpc' = IF variant = "stream" THEN "xread" ELSE "recv"
  /\ UNCHANGED << lsnFrame, lastId, shutdown, lmsg, batch, lastPoll,
                  subState, subchan >>

\* close(receiver.messages)
CloseMessages ==
  /\ lpc = "close"
  /\ chanClosed' = TRUE
  /\ lpc' = "done"
  /\ UNCHANGED << lsnFrame, lastId, shutdown, lmsg, batch, lastPoll,
                  subState, subchan >>

\* ----------------------------------------- listener: NewStreamReceiver
\* a listener that polls again after any error
XReadRetry(fail) ==
  /\ lpc = "xread"
  /\ IF fail
       THEN lastPoll' = "error" /\ lpc' = "xread" /\ batch' = batch
       ELSE IF EntriesAfter(log, lastId) = << >>
         THEN lastPoll' = "nil" /\ lpc' = "xread" /\ batch' = batch
         ELSE /\ lastPoll' = "batch"
              /\ batch' = EntriesAfter(log, lastId)
              /\ lpc' = "build"
  /\ UNCHANGED << lsnFrame, lastId, shutdown, lmsg, chanClosed, subState,
                  subchan >>

\* client.XRead(Block 100ms, Streams {source, lastId}): a batch, redis.Nil
\* on timeout, or another error
XRead(fail) ==
  /\ lpc = "xread"
  /\ IF fail
       THEN lastPoll' = "error" /\ lpc' = "close" /\ batch' = batch
       ELSE IF EntriesAfter(log, lastId) = << >>
         THEN lastPoll' = "nil" /\ lpc' = "xread" /\ batch' = batch
         ELSE /\ lastPoll' = "batch"
              /\ batch' = EntriesAfter(log, lastId)
              /\ lpc' = "build"
  /\ UNCHANGED << lsnFrame, lastId, shutdown, lmsg, chanClosed, subState,
                  subchan >>

\* a reply that repeats entries the listener has processed: those after an
\* earlier position c of the cursor
XReadAgain(c) ==
  /\ lpc = "xread"
  /\ redelivered < MaxRedeliver
  /\ IdNum(resume) <= c
  /\ c < IdNum(lastId)
  /\ EntriesAfter(log, IdStr(c)) # << >>
  /\ batch' = EntriesAfter(log, IdStr(c))
  /\ lastPoll' = "batch"
  /\ lpc' = "build"
  /\ redelivered' = redelivered + 1
  /\ UNCHANGED << cfgVars, variant, source, resume, shutdownCalls, published,
                  log, wrVars, sndVars, lastId, shutdown, lmsg, chanClosed,
                  subState, subchan >>

\* a listener that moves the cursor before the push
BuildAndAdvance ==
  /\ lpc = "build"
  /\ \E o \in Orders(DOMAIN Head(batch).values) :
        lmsg' = StreamMessage(source, Head(batch), o)
  /\ lpc' = "send"
  /\ lastId' = Head(batch).id
  /\ UNCHANGED << lsnFrame, shutdown, batch, lastPoll, chanClosed,
                  subState, subchan >>

\* the body of the range over wad.Messages up to the push
BuildMessage ==
  /\ lpc = "build"
  /\ \E o \in Orders(DOMAIN Head(batch).values) :
        lmsg' = StreamMessage(source, Head(batch), o)
  /\ lpc' = "send"
  /\ UNCHANGED << lsnFrame, lastId, shutdown, batch, lastPoll, chanClosed,
                  subState, subchan >>

\* receiver.lastId = evt.ID, then the next entry or the next XREAD
Advance ==
  /\ lpc = "advance"
  /\ lastId' = Head(batch).id
  /\ batch' = Tail(batch)
  /\ lpc' = IF Tail(batch) = << >> THEN "xread" ELSE "build"
  /\ UNCHANGED << lsnFrame, shutdown, lmsg, lastPoll, chanClosed, subState,
                  subchan >>

\* --------------------------------------------------- POST: the senders
FormType == "application/x-www-form-urlencoded"

\* Content-Type header values: absent, and media types with or without
\* parameters and upper case
Headers ==
  { << >>, << "application/json" >>, << "APPLICATION/JSON", ";charset=utf-8" >>,
    << "text/plain" >>, << "application/xml" >>, << FormType >> }

ToLower(a) == IF a = "APPLICATION/JSON" THEN "application/json" ELSE a

\* mime.ParseMediaType: the lower-cased media type without parameters, or
\* an error when there is none
ParseMediaType(h) ==
  IF h = << >> THEN [ok |-> FALSE, media |-> ""]
  ELSE [ok |-> TRUE, media |-> ToLower(h[1])]

Keys == {"a", "b"}
Vals == { << "1" >>, << "2" >> }
\* form fields: a with either value, b with the first
Pairs == { p \in [key : Keys, val : Vals] : p.key = "b" => p.val = << "1" >> }
Bodies == { EmptyStr, << "1" >>, << "1", NL, "2" >>, << "{" >> }

\* a validation that accepts every body
JsonAny(body) == TRUE

\* json.Valid on these bodies: one scalar, white space around it allowed
JsonValid(body) ==
  LET t == SelectSeq(body, LAMBDA a : a # NL)
  IN  Len(t) = 1 /\ t[1] \in {"1", "2"}

FormRequests(n) ==
  UNION { { [header |-> << FormType >>, pairs |-> f, body |-> EmptyStr] :
              f \in [1..k -> Pairs] } : k \in 0..n }

RawRequests ==
  { [header |-> h, pairs |-> << >>, body |-> b] :
      h \in Headers \ { << FormType >> }, b \in Bodies }

Requests == FormRequests(MaxForm) \cup RawRequests

\* req.ParseForm: PostForm maps each key of a form body to its values in
\* the order given
PostForm(req) ==
  IF ParseMediaType(req.header).media = FormType
    THEN [k \in { req.pairs[i].key : i \in 1..Len(req.pairs) } |->
            LET hits == SelectSeq(req.pairs, LAMBDA p : p.key = k)
            IN  [i \in 1..Len(hits) |-> hits[i].val]]
    ELSE << >>

\* the first value instead of the last
TakeFirst(vals) == vals[1]

\* vals[len(vals)-1:][0]
TakeValue(vals) == vals[Len(vals)]

\* a switch whose default stores the body as text
RawValuesLax(media, body) ==
  IF media = "application/json"
    THEN IF JsonValid(body)
           THEN [ok |-> TRUE, values |-> [k \in {"json"} |-> body], err |-> "none"]
           ELSE [ok |-> FALSE, values |-> << >>, err |-> "invalid JSON"]
  ELSE [ok |-> TRUE, values |-> [k \in {"text"} |-> body], err |-> "none"]

\* the switch on contentType
RawValues(media, body) ==
  IF media = "application/json"
    THEN IF JsonValid(body)
           THEN [ok |-> TRUE, values |-> [k \in {"json"} |-> body], err |-> "none"]
           ELSE [ok |-> FALSE, values |-> << >>, err |-> "invalid JSON"]
  ELSE IF media = "text/plain"
    THEN [ok |-> TRUE, values |-> [k \in {"text"} |-> body], err |-> "none"]
  ELSE [ok |-> FALSE, values |-> << >>, err |-> "unknown Content-Type"]

\* payload.Values as the sender builds it, or the error it returns
PayloadValues(req) ==
  LET pf == PostForm(req)
      ct == ParseMediaType(req.header)
  IN  IF DOMAIN pf = {}
        THEN IF ~ct.ok
               THEN [ok |-> FALSE, values |-> << >>, err |-> "mime"]
               ELSE RawValues(ct.media, req.body)
        ELSE [ok |-> TRUE, values |-> [k \in DOMAIN pf |-> TakeValue(pf[k])],
              err |-> "none"]

\* XADD with ID "*": the broker assigns an id above every id in the stream
NextId(lg) == IdStr(Len(lg) + 1)

\* NewStreamSender.send
StreamSend(req, brokerOk) ==
  /\ Len(log) < MaxLog
  /\ sendReq' = [kind |-> "stream", req |-> req]
  /\ LET p == PayloadValues(req)
         xadd == [op |-> "XADD", key |-> Channel, arg |-> p.values,
                  reply |-> IF brokerOk THEN IdNum(NextId(log)) ELSE Unreached]
     IN  IF ~p.ok
           THEN /\ sendResult' = [ok |-> FALSE, val |-> EmptyStr, err |-> p.err]
                /\ sent' = << >>
                /\ log' = log
         ELSE IF ~brokerOk
           THEN /\ sendResult' = [ok |-> FALSE, val |-> EmptyStr, err |-> "broker"]
                /\ sent' = << xadd >>
                /\ log' = log
         ELSE /\ log' = Append(log, [id |-> NextId(log), values |-> p.values])
              /\ sent' = << xadd >>
              /\ sendResult' = [ok |-> TRUE, val |-> NextId(log), err |-> "none"]
  /\ UNCHANGED << cfgVars, recvVars, lsnVars, subState, subchan, published,
                  wrVars >>


\* subscribers of the channel on other connections of the broker
Others == {0, 1, MaxOthers}

\* PUBLISH: the number of subscribers that received the message
Subscribers(others) == others + (IF subState = "open" THEN 1 ELSE 0)

\* NewPubSubSender.send
PubSubSend(body, brokerOk, others) ==
  /\ Len(published) < MaxPub
  /\ sendReq' = [kind |-> "pubsub", req |-> body]
  /\ sent' = << [op |-> "PUBLISH", key |-> Channel, arg |-> body,
                  reply |-> IF brokerOk THEN Subscribers(others)
                            ELSE Unreached] >>
  /\ IF ~brokerOk
       THEN /\ sendResult' = [ok |-> FALSE, val |-> EmptyStr, err |-> "broker"]
            /\ UNCHANGED << subchan, published >>
       ELSE /\ sendResult' = [ok |-> TRUE,
                              val |-> FormatInt(Subscribers(others)),
                              err |-> "none"]
            /\ IF subState = "open"
                 THEN /\ subchan' = Append(subchan, body)
                      /\ published' = Append(published, body)
                 ELSE UNCHANGED << subchan, published >>
  /\ UNCHANGED << cfgVars, recvVars, lsnVars, subState, log, wrVars >>

\* ------------------------------------------------ POST: publisher
ErrorPrefix == "Error submitting message: "

\* a publisher that answers 200 whatever the sender returned
RespondOk(result) == response' = [status |-> 200, body |-> result.val]

\* publisher after sender.send: http.Error with status 500 and the message
\* on an error, else status 200 and the result
Respond(result) ==
  response' = IF result.ok
                THEN [status |-> 200, body |-> result.val]
                ELSE [status |-> 500, body |-> << ErrorPrefix, result.err, NL >>]

\* publisher on a path under the stream prefix
PublishToStream(req, brokerOk) ==
  /\ StreamSend(req, brokerOk)
  /\ Respond(sendResult')

\* publisher on a path under the pubsub prefix
PublishToChannel(body, brokerOk, others) ==
  /\ PubSubSend(body, brokerOk, others)
  /\ Respond(sendResult')

\* ------------------------------------------------- specifications
\* requests and payloads used while a connection streams
StreamingRequests ==
  { [header |-> << FormType >>,
     pairs |-> << [key |-> "a", val |-> << "1" >>],
                  [key |-> "b", val |-> << "2" >>] >>,
     body |-> EmptyStr] }

Payloads == { EmptyStr, << "1", NL, "2" >> }

\* POSTs the broker accepts, to the source the connection streams and until
\* its handler returns (POSTs to the other source do not touch the
\* connection)
PostToStream(req) ==
  /\ variant # "pubsub"
  /\ wpc # "closed"
  /\ PublishToStream(req, TRUE)

PostToChannel(body) ==
  /\ variant # "stream"
  /\ wpc # "closed"
  /\ PublishToChannel(body, TRUE, 0)

\* the handler's steps after the receiver is made
Handler ==
  \/ \E ok \in BOOLEAN : WritePadding(ok)
  \/ \E ok \in BOOLEAN : WriteRetry(ok)
  \/ Flush
  \/ Tick
  \/ Cancel
  \/ SelectMessage
  \/ SelectTimeout
  \/ SelectDone
  \/ \E ok \in BOOLEAN : WriteId(ok)
  \/ \E ok \in BOOLEAN : WriteEvent(ok)
  \/ \E ok \in BOOLEAN : WriteData(ok)
  \/ \E ok \in BOOLEAN : WriteBlank(ok)
  \/ \E ok \in BOOLEAN : WriteKeepAlive(ok)

\* the steps the handler's goroutine takes by itself
Writer ==
  \/ \E ok \in BOOLEAN : WritePadding(ok)
  \/ \E ok \in BOOLEAN : WriteRetry(ok)
  \/ Flush
  \/ SelectMessage
  \/ SelectTimeout
  \/ SelectDone
  \/ \E ok \in BOOLEAN : WriteId(ok)
  \/ \E ok \in BOOLEAN : WriteEvent(ok)
  \/ \E ok \in BOOLEAN : WriteData(ok)
  \/ \E ok \in BOOLEAN : WriteBlank(ok)
  \/ \E ok \in BOOLEAN : WriteKeepAlive(ok)

PubSubListener ==
  \/ Subscribe
  \/ SetShutdown
  \/ PubSubRecv

\* a durable listener whose push returns before the handler has read
StreamListenerBuffered ==
  \/ \E fail \in BOOLEAN : XRead(fail)
  \/ BuildMessage
  \/ Advance
  \/ /\ lpc = "send"
     /\ lpc' = "advance"
     /\ UNCHANGED << lsnFrame, lastId, shutdown, lmsg, batch, lastPoll,
                     chanClosed, subState, subchan >>

StreamListener ==
  \/ \E fail \in BOOLEAN : XRead(fail)
  \/ BuildMessage
  \/ Advance

\* one connection and the POSTs to its source (SpecPost covers the senders
\* on every request, their failures included)
Next ==
  \/ \E v \in {"pubsub", "stream"}, hdr \in LastEventIds : Subscriber(v, hdr)
  \/ Handler
  \/ PubSubListener
  \/ StreamListener
  \/ CloseMessages
  \/ \E req \in StreamingRequests : PostToStream(req)
  \/ \E body \in Payloads : PostToChannel(body)

\* a negative client-retry flag leaves clientRetryTime empty as 0 does, and
\* the retry line belongs to Opening, the keep-alive to the loop: the
\* connections below take 0 for a negative flag and the retry line without
\* keep-alives (SpecOpening takes every flag with and without keep-alives)
InitServe ==
  /\ Init
  /\ clientRetry >= 0
  /\ (keepAliveTime > 0 => clientRetry = 0)

Spec == InitServe /\ [][Next]_vars

\* a durable connection whose broker may also repeat entries the listener
\* has already processed
NextRedeliver ==
  \/ \E hdr \in LastEventIds : Subscriber("stream", hdr)
  \/ Handler
  \/ StreamListener
  \/ CloseMessages
  \/ \E c \in 0..MaxLog : XReadAgain(c)
  \/ \E req \in StreamingRequests : PostToStream(req)

SpecRedeliver == InitServe /\ [][NextRedeliver]_vars

\* a durable connection whose handler goroutine keeps running, and whose
\* select, choosing at random among the ready arms, does not pass over a
\* message arm that is ready at every visit
NextClosure ==
  \/ \E hdr \in LastEventIds : Subscriber("stream", hdr)
  \/ Handler
  \/ StreamListener
  \/ CloseMessages
  \/ \E req \in StreamingRequests : PostToStream(req)

SpecClosure ==
  /\ InitServe
  /\ [][NextClosure]_vars
  /\ WF_vars(Writer)
  /\ SF_vars(SelectMessage)

\* a POST of an empty text/plain body: the entry's one field has an empty
\* value
EmptyTextRequests ==
  { [header |-> << "text/plain" >>, pairs |-> << >>, body |-> EmptyStr] }

\* one connection of either variant whose source gets empty payloads
NextSentinel ==
  \/ \E v \in {"pubsub", "stream"}, hdr \in LastEventIds : Subscriber(v, hdr)
  \/ Handler
  \/ PubSubListener
  \/ StreamListener
  \/ CloseMessages
  \/ \E req \in EmptyTextRequests \cup StreamingRequests : PostToStream(req)
  \/ \E body \in Payloads : PostToChannel(body)

SpecSentinel == InitServe /\ [][NextSentinel]_vars

\* the steps the listener's goroutine takes by itself while the broker
\* answers without an error
Listener ==
  \/ Subscribe
  \/ SetShutdown
  \/ PubSubRecv
  \/ XRead(FALSE)
  \/ BuildMessage
  \/ Advance
  \/ CloseMessages

\* one connection of either variant whose two goroutines both keep running:
\* the scheduler leaves neither a runnable handler nor a runnable listener
\* waiting forever
SpecLeak ==
  /\ InitServe
  /\ [][Next]_vars
  /\ WF_vars(Writer)
  /\ WF_vars(Listener)

\* a durable connection under every value of the client-retry flag
NextOpening ==
  \/ \E hdr \in LastEventIds : Subscriber("stream", hdr)
  \/ Handler
  \/ StreamListener
  \/ CloseMessages
  \/ \E req \in StreamingRequests : PostToStream(req)

SpecOpening == Init /\ [][NextOpening]_vars

\* the senders alone, over every request
NextPost ==
  \/ \E req \in Requests, ok \in BOOLEAN :
        PublishToStream(req, ok)
  \/ \E body \in Bodies, ok \in BOOLEAN, others \in Others :
        PublishToChannel(body, ok, others)

\* the senders read neither flag: one configuration stands for all
InitPost ==
  /\ Init
  /\ keepAliveTime = KeepAlive
  /\ clientRetry = 0

SpecPost == InitPost /\ [][NextPost]_vars

\* ============================================================ properties
\* what a client reads from the response: the frames closed by a blank line
NoFrame == [id |-> EmptyStr, event |-> "", data |-> << >>]

RECURSIVE FramesFrom(_, _)
FramesFrom(lines, cur) ==
  IF lines = << >> THEN << >>
  ELSE LET l == Head(lines)
           kind == l[1]
       IN  IF kind = "id"
             THEN FramesFrom(Tail(lines), [cur EXCEPT !.id = l[2]])
           ELSE IF kind = "event"
             THEN FramesFrom(Tail(lines), [cur EXCEPT !.event = l[2]])
           ELSE IF kind = "data"
             THEN FramesFrom(Tail(lines),
                             [cur EXCEPT !.data = Append(cur.data, l[2])])
           ELSE IF kind = "blank"
             THEN << cur >> \o FramesFrom(Tail(lines), NoFrame)
           ELSE FramesFrom(Tail(lines), cur)

Frames == FramesFrom(out, NoFrame)

\* the payload a client rebuilds from the data lines of one frame
RECURSIVE Unsplit(_)
Unsplit(segs) ==
  IF Len(segs) = 0 THEN EmptyStr
  ELSE IF Len(segs) = 1 THEN Head(segs)
  ELSE Head(segs) \o << "\n" >> \o Unsplit(Tail(segs))

OneLine(seg) == \A i \in 1..Len(seg) : seg[i] # "\n"

NonEmpty(payloads) == SelectSeq(payloads, LAMBDA p : p # << >>)

Writing == wpc \in {"id", "event", "data", "blank"}

\* frame f is the event of payload p published on the channel
EventOf(f, p) ==
  /\ f.id = << >>
  /\ f.event = Channel
  /\ Unsplit(f.data) = p
  /\ \A i \in 1..Len(f.data) : OneLine(f.data[i])

\* events delivered, being written, being pushed or waiting in the
\* subscription, of the payloads in want
Accounted(want, waiting) ==
  Len(Frames) + (IF Writing THEN 1 ELSE 0) + (IF lpc = "send" THEN 1 ELSE 0)
    + Len(waiting) = Len(want)

InOrder(want) ==
  /\ Len(Frames) <= Len(want)
  /\ \A i \in 1..Len(Frames) : EventOf(Frames[i], want[i])

Wanted == SelectSeq(log, LAMBDA e : e.id[1] > resume[1])

\* the texts an entry may flatten to: its key=value lines in some order
TextsOf(e) ==
  { Unsplit([i \in 1..Len(o) |-> << o[i], "=" >> \o e.values[o[i]]]) :
      o \in Orders(DOMAIN e.values) }

\* frame f is the event of log entry e
EntryOf(f, e) ==
  /\ f.id = e.id
  /\ f.event = Channel
  /\ Unsplit(f.data) \in TextsOf(e)
  /\ \A i \in 1..Len(f.data) : OneLine(f.data[i])

\* the listener has nothing to fetch and the handler nothing to write
Quiet ==
  /\ lpc = "xread"
  /\ wpc \in {"flush", "select", "keepalive"}
  /\ \A i \in 1..Len(log) : log[i].id[1] <= lastId[1]

\* C2: a client of a durable source that resumes from r (0 without the
\* header) receives the log entries with id above r, each once, in
\* ascending id order, each with its id line; once the listener has caught
\* up with the log the client has received all of them.
C2_ResumeAfterLastEventId ==
  variant = "stream" =>
    /\ Len(Frames) <= Len(Wanted)
    /\ \A i \in 1..Len(Frames) : EntryOf(Frames[i], Wanted[i])
    /\ (Quiet => Len(Frames) = Len(Wanted))

\* log 1,2 and Last-Event-ID 1: the client has received entry 2 alone
C2_Witness ==
  /\ variant = "stream"
  /\ resume = << 1 >>
  /\ Len(log) = 2
  /\ Quiet
  /\ Len(Frames) = 1
  /\ Frames[1].id = << 2 >>

\* ---------------------------------------------------------------- C3
\* C3 as claimed: once the handler has returned, the receiver's shutdown
\* has been invoked exactly once.
C3_ShutdownExactlyOnce == wpc = "closed" => shutdownCalls = 1

\* ---------------------------------------------------------------- C4
\* C4 as claimed: when the cancellation token is done at the select, the
\* handler attempts no further write, whatever else is ready.
C4_NoWriteAfterDone == ~lateWrite

\* ---------------------------------------------------------------- C5
\* C5 as claimed: the cursor of a durable receiver never decreases,
\* whatever batches the broker returns, repeated ones included.
C5_CursorNeverDecreases ==
  [][lastId # << >> => lastId'[1] >= lastId[1]]_vars

\* ---------------------------------------------------------------- C6
\* C6: the handler never writes a frame for a message whose text is empty:
\* it is never past the select with such a message, and no frame a client
\* reads carries an empty payload.
C6_SentinelNeverFramed ==
  /\ (wpc \in {"id", "event", "data", "blank"} => wmsg.text # << >>)
  /\ \A i \in 1..Len(Frames) : Unsplit(Frames[i].data) # << >>

\* the handler read the zero message of the closed queue, after an event,
\* and returned
C6_Witness ==
  /\ exitAt = "sentinel"
  /\ chanClosed
  /\ wmsg.text = << >>
  /\ Len(Frames) >= 1

DurablePost == sendReq'.kind = "stream"

\* the value a form gives a key: that of the last pair naming it
LastValues(pairs) ==
  [k \in { pairs[i].key : i \in 1..Len(pairs) } |->
     LET last == CHOOSE i \in 1..Len(pairs) :
                   /\ pairs[i].key = k
                   /\ \A j \in (i+1)..Len(pairs) : pairs[j].key # k
     IN  pairs[last].val]

\* the step appended one entry with field map v and returned its id, an id
\* above those already in the log
Appended(v) ==
  /\ Len(log') = Len(log) + 1
  /\ SubSeq(log', 1, Len(log)) = log
  /\ log'[Len(log')].values = v
  /\ \A i \in 1..Len(log) : log[i].id[1] < log'[Len(log')].id[1]
  /\ sendResult' = [ok |-> TRUE, val |-> log'[Len(log')].id, err |-> "none"]

\* the step failed with err and left the log alone
Refused(err) ==
  /\ log' = log
  /\ sendResult' = [ok |-> FALSE, val |-> << >>, err |-> err]

\* C8: a form POST with one or more fields to a durable source appends one
\* entry whose field map has the posted keys, each with the last value
\* given for it, and returns the id the broker assigned (or the append
\* itself is refused by the broker and nothing is appended).
C8_FormPostLastValueWins ==
  [][(DurablePost /\ sendReq'.req.pairs # << >>) =>
       \/ Appended(LastValues(sendReq'.req.pairs))
       \/ Refused("broker")]_vars

\* a=1&a=2 (or a=2&a=1) was posted and appended
C8_Witness ==
  /\ sendReq.kind = "stream"
  /\ Len(sendReq.req.pairs) = 2
  /\ sendReq.req.pairs[1].key = sendReq.req.pairs[2].key
  /\ sendReq.req.pairs[1].val # sendReq.req.pairs[2].val
  /\ sendResult.ok
  /\ log # << >>

OtherTypes == { << "application/xml" >>, << "application/x-www-form-urlencoded" >> }

\* C9: a POST without form fields to a durable source whose content type is
\* neither application/json nor text/plain fails with the unsupported
\* content type error and appends nothing.
C9_OtherContentTypeRefused ==
  [][(DurablePost /\ sendReq'.req.pairs = << >>
        /\ sendReq'.req.header \in OtherTypes) =>
       Refused("unknown Content-Type")]_vars

\* application/xml was posted after an entry was appended, and refused
C9_Witness ==
  /\ sendReq.kind = "stream"
  /\ sendReq.req.header = << "application/xml" >>
  /\ sendReq.req.body # << >>
  /\ sendResult.err = "unknown Content-Type"
  /\ Len(log) = 1

JsonTypes ==
  { << "application/json" >>, << "APPLICATION/JSON", ";charset=utf-8" >> }

\* of the bodies posted, the ones that are JSON texts
JsonTexts == { << "1" >> }

\* C10: a POST without form fields and with content type application/json
\* to a durable source fails with the invalid JSON error and appends
\* nothing when the body is not JSON; when it is, one entry is appended
\* with the single field json holding the body (or the broker refuses the
\* append).
C10_JsonValidatedThenStored ==
  [][(DurablePost /\ sendReq'.req.pairs = << >>
        /\ sendReq'.req.header \in JsonTypes) =>
       IF sendReq'.req.body \in JsonTexts
         THEN \/ Appended([k \in {"json"} |-> sendReq'.req.body])
              \/ Refused("broker")
         ELSE Refused("invalid JSON")]_vars

\* a JSON body was stored, then a body that is not JSON was refused
C10_Witness ==
  /\ sendReq.kind = "stream"
  /\ sendReq.req.header \in JsonTypes
  /\ sendReq.req.body = << "1", "\n", "2" >>
  /\ sendResult.err = "invalid JSON"
  /\ Len(log) = 1
  /\ log[1].values = [k \in {"json"} |-> << "1" >>]

\* --------------------------------------------------------------- C11
\* C11: every POST gets one of two responses: when the sender returned an
\* error, status 500 with the error text and nothing of a result; when it
\* succeeded, status 200 with the result string as the body.
C11_IngestOutcome ==
  [][sendReq'.kind # "none" =>
       IF sendResult'.ok
         THEN response' = [status |-> 200, body |-> sendResult'.val]
         ELSE /\ response'.status = 500
              /\ response'.body =
                   << "Error submitting message: ", sendResult'.err, "\n" >>
              /\ sendResult'.val = << >>]_vars

\* a POST was answered 500 after another had appended an entry
C11_Witness ==
  /\ response.status = 500
  /\ sendResult.err = "mime"
  /\ Len(log) = 1

\* --------------------------------------------------------------- C12
RECURSIVE ValueOf(_)
\* the number a string of decimal digits denotes
ValueOf(str) ==
  IF str = << >> THEN 0
  ELSE 10 * ValueOf(SubSeq(str, 1, Len(str) - 1))
         + (CHOOSE d \in 0..9 : Digits[d + 1] = str[Len(str)])

\* a decimal string without sign or leading zero
Decimal(str) ==
  /\ Len(str) >= 1
  /\ \A i \in 1..Len(str) :
        str[i] \in {"0", "1", "2", "3", "4", "5", "6", "7", "8", "9"}
  /\ (Len(str) > 1 => str[1] # "0")

\* C12: a POST to an ephemeral source issues one PUBLISH on the channel
\* with the request body as its payload; it returns the count the broker
\* reports as a decimal string, or an error and no count when the broker
\* cannot be reached.
C12_EphemeralSender ==
  [][sendReq'.kind = "pubsub" =>
       /\ Len(sent') = 1
       /\ sent'[1].op = "PUBLISH"
       /\ sent'[1].key = Channel
       /\ sent'[1].arg = sendReq'.req
       /\ log' = log
       /\ IF sent'[1].reply # Unreached
            THEN /\ sendResult'.ok
                 /\ Decimal(sendResult'.val)
                 /\ ValueOf(sendResult'.val) = sent'[1].reply
                 /\ (subState = "open" =>
                       subchan' = Append(subchan, sendReq'.req))
            ELSE /\ sendResult' = [ok |-> FALSE, val |-> << >>,
                                   err |-> "broker"]
                 /\ subchan' = subchan]_vars

\* a two-line body was published to twelve subscribers
C12_Witness ==
  /\ sendReq.kind = "pubsub"
  /\ sendReq.req = << "1", "\n", "2" >>
  /\ sent[1].arg = sendReq.req
  /\ sendResult.val = << "1", "2" >>

\* --------------------------------------------------------------- C13
\* the positions of the newlines of a text
NewLines(t) == SelectSeq([i \in 1..Len(t) |-> i], LAMBDA i : t[i] = "\n")

\* its newline-delimited segments: n newlines delimit n+1 segments
Segments(t) ==
  LET ps == NewLines(t)
      n == Len(ps)
      from(i) == IF i = 1 THEN 1 ELSE ps[i-1] + 1
      to(i) == IF i = n + 1 THEN Len(t) ELSE ps[i] - 1
  IN  [i \in 1..(n+1) |-> SubSeq(t, from(i), to(i))]

\* the lines of the event of a message
FrameLines(msg) ==
  LET segs == Segments(msg.text)
  IN  (IF msg.id # << >> THEN << << "id", msg.id >> >> ELSE << >>)
        \o << << "event", msg.source >> >>
        \o [i \in 1..Len(segs) |-> << "data", segs[i] >>]
        \o << << "blank" >> >>

\* the messages the listener hands over, in order: for each, the forms it
\* may take (a field map flattens in any key order)
Handed ==
  IF variant = "pubsub"
    THEN [i \in 1..Len(NonEmpty(published)) |->
            { [id |-> << >>, source |-> Channel,
               text |-> NonEmpty(published)[i]] }]
    ELSE [i \in 1..Len(Wanted) |->
            { [id |-> Wanted[i].id, source |-> Channel, text |-> t] :
                t \in TextsOf(Wanted[i]) }]

\* the lines of events written so far
EventLines ==
  SelectSeq(out, LAMBDA l : l[1] \in {"id", "event", "data", "blank"})

IsPrefix(p, q) == Len(p) <= Len(q) /\ SubSeq(q, 1, Len(p)) = p

Mismatch == << << "mismatch" >> >>

RECURSIVE AfterFrames(_, _, _)
\* lines without the whole events of the messages i.. of handed at their
\* head
AfterFrames(lines, i, handed) ==
  IF i > Len(handed) THEN lines
  ELSE IF \E m \in handed[i] : IsPrefix(FrameLines(m), lines)
    THEN LET m == CHOOSE m \in handed[i] : IsPrefix(FrameLines(m), lines)
         IN  AfterFrames(SubSeq(lines, Len(FrameLines(m)) + 1, Len(lines)),
                         i + 1, handed)
  ELSE Mismatch

\* the number of events ended
Ended == Len(SelectSeq(out, LAMBDA l : l[1] = "blank"))

\* C13: the event lines written are, message after message in the order
\* handed over, the lines of its event: the id line when and only when the
\* message has an id, the event line with its source, one data line per
\* newline-delimited segment of its text, the blank line; the event in
\* progress has its lines up to the handler's position, and no comment or
\* retry line stands inside an event.
C13_EventFraming ==
  variant # "none" =>
    LET handed == Handed
        done == Ended
        started == IF done <= Len(handed)
                     THEN AfterFrames(EventLines, 1, SubSeq(handed, 1, done))
                     ELSE Mismatch
        all == FrameLines(wmsg)
    IN  /\ started # Mismatch
        /\ (Writing =>
             /\ done < Len(handed)
             /\ wmsg \in handed[done + 1]
             /\ IsPrefix(started, all)
             /\ Len(started) =
                  (IF wpc = "id" THEN 0
                   ELSE IF wpc = "event"
                     THEN Len(all) - 2 - Len(Segments(wmsg.text))
                   ELSE Len(all) - 1 - Len(hunks)))
        /\ (wpc = "closed" =>
             \/ started = << >>
             \/ /\ exitAt \in {"event", "data", "blank"}
                /\ IsPrefix(started, all)
                /\ Len(started) < Len(all))
        /\ (~Writing /\ wpc # "closed" => started = << >>)
        /\ \A i \in 2..Len(out) :
              out[i][1] \in {"comment", "retry"} =>
                out[i-1][1] \in {"comment", "retry", "blank"}

\* an entry with two fields was written with its id line, after the
\* keep-alive
C13_Witness ==
  /\ variant = "stream"
  /\ wpc = "flush"
  /\ Len(out) >= 7
  /\ out[2] = << "comment", "keep-alive" >>
  /\ out[3][1] = "id"
  /\ out[4][1] = "event"
  /\ out[5][1] = "data"
  /\ out[6][1] = "data"
  /\ out[7] = << "blank" >>

\* --------------------------------------------------------------- C14
Padding == << "comment", "padding" >>

\* the handler is past the writes of Opening
Opened ==
  /\ wpc \notin {"idle", "padding", "retry"}
  /\ (wpc = "closed" => exitAt \notin {"padding", "retry"})

RetryLines == SelectSeq(out, LAMBDA l : l[1] = "retry")

\* padding first, at most one retry line and that one second, nothing else
\* written before Opening is over
OpeningOrder ==
  /\ (out # << >> => out[1] = Padding)
  /\ Len(RetryLines) <= 1
  /\ \A i \in 1..Len(out) : out[i][1] = "retry" => i = 2
  /\ (~Opened => \A i \in 1..Len(out) : out[i] = Padding)
  /\ (~Opened => Len(out) <= 1)

\* C14 as claimed: the order of Opening, with the retry directive written
\* when and only when the configured client-retry interval is not zero.
C14_RetryIffNonZero ==
  /\ OpeningOrder
  /\ (Opened => (Len(RetryLines) = 1 <=> clientRetry # 0))

\* C14 amended: the same, with the retry directive written when and only
\* when the configured interval is above zero, and carrying it in
\* milliseconds.
C14_RetryIffPositive ==
  /\ OpeningOrder
  /\ (Opened => (Len(RetryLines) = 1 <=> clientRetry > 0))
  /\ \A i \in 1..Len(RetryLines) :
        /\ Decimal(RetryLines[i][2])
        /\ ValueOf(RetryLines[i][2]) = 1000 * clientRetry

\* with a positive interval: padding, retry, then an event
C14_Witness ==
  /\ clientRetry > 0
  /\ Len(out) >= 5
  /\ out[2][1] = "retry"
  /\ out[3][1] = "id"
  /\ wpc = "select"

\* --------------------------------------------------------------- C15
\* the durable listener has left its loop
Stopped == lpc \in {"close", "done"}

\* C15: a poll of the durable listener that times out leaves the cursor
\* and the queue as they were and the listener at the poll; an error of
\* the poll takes the listener out of its loop for good: it polls no more,
\* fetches nothing more, and its only step left is the close of the queue.
C15_ListenerErrorPolicy ==
  [][variant' = "stream" =>
       /\ (lpc = "xread" /\ lastPoll' = "nil") =>
             /\ lpc' = "xread"
             /\ lastId' = lastId
             /\ batch' = batch
             /\ ~chanClosed'
       /\ (lastPoll' = "error" => Stopped')
       /\ (Stopped =>
             /\ Stopped'
             /\ lastPoll' = lastPoll
             /\ lastId' = lastId
             /\ batch' = batch
             /\ lmsg' = lmsg)
       /\ (lpc = "close" /\ lpc' # "close" => chanClosed')
       /\ (lpc' = "done" => chanClosed')]_vars

\* polls timed out, an entry was delivered, then a poll failed and the
\* queue was closed
C15_Witness ==
  /\ variant = "stream"
  /\ lastPoll = "error"
  /\ lpc = "done"
  /\ chanClosed
  /\ lastId = << 1 >>
  /\ Len(Frames) = 1

\* --------------------------------------------------------------- C16
\* ids of the messages the handler has taken from the queue: the one in
\* its hands and those whose id line it wrote
TakenIds ==
  { wmsg.id } \cup { out[i][2] : i \in { j \in 1..Len(out) : out[j][1] = "id" } }

\* C16: the cursor of a durable receiver is the position it resumed from
\* or the id of an entry whose message the handler has taken from the
\* queue; it is never the id of the entry being built or pushed, which
\* lies after it.
C16_CursorFollowsDelivery ==
  variant = "stream" =>
    /\ (lastId = resume \/ lastId \in TakenIds)
    /\ (lpc \in {"build", "send"} =>
          /\ lastId # Head(batch).id
          /\ lastId[1] < Head(batch).id[1])
    /\ (lpc = "send" => lmsg.id = Head(batch).id)
    /\ (lpc = "advance" => wmsg.id = Head(batch).id)

\* entry 1 was taken and the cursor moved to it; entry 2 waits in the push
C16_Witness ==
  /\ variant = "stream"
  /\ resume = << 0 >>
  /\ lastId = << 1 >>
  /\ lpc = "send"
  /\ lmsg.id = << 2 >>
  /\ wmsg.id = << 1 >>

\* --------------------------------------------------------------- C17
\* C17: the queue goes from open to closed in one step of its listener,
\* the last step the listener takes; once closed it stays closed and the
\* listener does nothing more, so it neither closes the queue again nor
\* pushes to it.
C17_QueueClosedOnce ==
  [][/\ (chanClosed' /\ ~chanClosed => lpc = "close" /\ lpc' = "done")
     /\ (chanClosed =>
           /\ chanClosed'
           /\ lpc = "done"
           /\ lpc' = "done"
           /\ lmsg' = lmsg)
     /\ (lpc' \in {"send", "close"} => ~chanClosed')]_vars

\* the subscription ended after an event and its listener closed the queue
C17_Witness ==
  /\ variant = "pubsub"
  /\ chanClosed
  /\ lpc = "done"
  /\ subState = "closed"
  /\ Len(Frames) >= 1

\* --------------------------------------------------------------- C18
\* the handler is in its loop
Streaming ==
  wpc \in {"flush", "select", "id", "event", "data", "blank", "keepalive"}

\* C18: when the listener has closed the queue while the handler is in its
\* loop, the handler eventually returns; when it returns on the zero
\* message read from the closed queue it has written no line for it.
C18_ClosurePropagates ==
  /\ (chanClosed /\ Streaming) ~> (wpc = "closed")
  /\ [](exitAt = "sentinel" =>
          /\ wpc = "closed"
          /\ out[Len(out)][1] \in {"comment", "retry", "blank"})

\* a poll failed, the handler wrote a keep-alive first and then read the
\* zero message of the closed queue
C18_Witness ==
  /\ variant = "stream"
  /\ lastPoll = "error"
  /\ exitAt = "sentinel"
  /\ ~cancelled
  /\ out[Len(out)] = << "comment", "keep-alive" >>

\* --------------------------------------------------------------- C19
\* C19: a write that fails, in Opening or in the loop, adds no line to the
\* response and makes the handler return from that write; a handler that
\* has returned attempts no write again, of the failed line or any other.
C19_WriteFailureTerminal ==
  [][/\ (writeFailed' => wpc' = "closed")
     /\ (writeFailed' /\ ~writeFailed =>
           /\ out' = out
           /\ exitAt' = wpc
           /\ wpc \in {"padding", "retry", "id", "event", "data", "blank",
                        "keepalive"})
     /\ (wpc = "closed" =>
           /\ wpc' = "closed"
           /\ out' = out
           /\ writeFailed' = writeFailed
           /\ lateWrite' = lateWrite
           /\ exitAt' = exitAt)]_vars

\* the second data line of an event could not be written
C19_Witness ==
  /\ writeFailed
  /\ wpc = "closed"
  /\ exitAt = "data"
  /\ out[Len(out)][1] = "data"

\* --------------------------------------------------------------- C20
\* the ephemeral listener takes the next event of its subscription
TakesEvent == lpc = "recv" /\ subchan # << >> /\ subchan' = Tail(subchan)

\* C20: an event with an empty payload makes the ephemeral listener push
\* nothing and wait for the next event, the queue staying open; an event
\* with a payload is pushed as a message; the listener leaves its loop,
\* to close the queue, only when the subscription is closed and has no
\* event left.
C20_EmptyEventIgnored ==
  [][variant' = "pubsub" =>
       /\ (TakesEvent /\ Head(subchan) = << >> =>
             /\ lpc' = "recv"
             /\ lmsg' = lmsg
             /\ ~chanClosed'
             /\ wpc' = wpc)
       /\ (TakesEvent /\ Head(subchan) # << >> =>
             /\ lpc' = "send"
             /\ lmsg' = [id |-> << >>, source |-> Channel,
                         text |-> Head(subchan)])
       /\ (lpc' = "close" /\ lpc # "close" =>
             /\ lpc = "recv"
             /\ subState = "closed"
             /\ subchan = << >>)
       /\ (chanClosed' => subState' = "closed")]_vars

\* an event was delivered, then an empty one was taken and ignored: the
\* listener waits, the queue is open, the handler is in its loop
C20_Witness ==
  /\ variant = "pubsub"
  /\ Len(published) = 2
  /\ published[2] = << >>
  /\ subchan = << >>
  /\ lpc = "recv"
  /\ ~chanClosed
  /\ subState = "open"
  /\ wpc = "select"
  /\ Len(Frames) = 1

\* --------------------------------------------------------------- C21
\* C21: while the listener has a message in its push it does nothing else:
\* it takes no event from the subscription, polls and fetches nothing and
\* moves no cursor; the push ends only by the handler, waiting in its
\* select, receiving that very message; and a push starts only from a
\* newly taken event or a newly built entry, so one message at most is
\* between the two.
C21_Backpressure ==
  [][/\ (lpc = "send" =>
           \/ /\ lpc' = "send"
              /\ lmsg' = lmsg
              /\ batch' = batch
              /\ lastPoll' = lastPoll
              /\ lastId' = lastId
              /\ IsPrefix(subchan, subchan')
           \/ /\ wpc = "select"
              /\ wmsg' = lmsg
              /\ lpc' \in {"recv", "advance"}
              /\ subchan' = subchan
              /\ batch' = batch
              /\ lastId' = lastId)
     /\ (lpc' = "send" /\ lpc # "send" => lpc \in {"recv", "build"})]_vars

\* entry 1 waits in the push while the handler is still at the padding
\* write; entry 2, appended since, has not been fetched
C21_Witness ==
  /\ variant = "stream"
  /\ lpc = "send"
  /\ lmsg.id = << 1 >>
  /\ Len(batch) = 1
  /\ Len(log) = 2
  /\ wpc = "padding"

\* --------------------------------------------------------------- C22
\* C22: the message a listener pushes never has an empty text, whatever
\* was published or appended (empty payloads and empty field values
\* included), so the handler does not take it for the end of the stream;
\* the handler returns on the message arm only with the zero message of a
\* queue its listener has closed.
C22_SentinelOnlyOnClose ==
  /\ (lpc = "send" => lmsg.text # << >>)
  /\ (exitAt = "sentinel" =>
        /\ chanClosed
        /\ lpc = "done"
        /\ wmsg = [id |-> << >>, source |-> "", text |-> << >>])
  /\ (wpc \in {"id", "event", "data", "blank"} => wmsg.text # << >>)

\* an entry whose one field has an empty value was delivered as an event
\* and the connection went on
C22_Witness ==
  /\ variant = "stream"
  /\ Len(log) >= 1
  /\ log[1].values = [k \in {"text"} |-> << >>]
  /\ Len(Frames) = 1
  /\ Frames[1].data = << << "text", "=" >> >>
  /\ wpc = "select"

\* --------------------------------------------------------------- C23
\* C23: once the handler of a connection has returned, for whatever reason,
\* the connection's listener eventually terminates (it has closed the queue
\* and left its loop), for both variants.
C23_ListenerTerminates == (wpc = "closed") ~> (lpc = "done")

====
